---- MODULE Spec2Model ----
(***************************************************************************)
(* Model of function_app.py: the HTTP-triggered speech-to-speech pipeline  *)
(*   translate -> speech_to_text -> translate_text -> text_to_speech       *)
(* Python values are records [t, v]; text is a tuple of one-character      *)
(* strings (fixed text of a message is a single multi-character token).    *)
(***************************************************************************)
EXTENDS Integers, Sequences, FiniteSets, TLC

\* ------------------------------------------------------------------------
\* Bounds of the model
\* ------------------------------------------------------------------------
\* number of requests the function app serves, one after the other
MaxRequests == 1

\* ------------------------------------------------------------------------
\* Python values
\* ------------------------------------------------------------------------
PyNone == [t |-> "none", v |-> <<>>]
PyStr(s) == [t |-> "str", v |-> s]
PyNum(n) == [t |-> "num", v |-> n]
PyList(s) == [t |-> "list", v |-> s]
PyDict(f) == [t |-> "dict", v |-> f]

\* bool(x) of Python, as used by `not x`, `x or y` and all([...])
Truthy(x) ==
  CASE x.t = "none" -> FALSE
    [] x.t = "str"  -> x.v # <<>>
    [] x.t = "num"  -> x.v # 0
    [] x.t = "list" -> x.v # <<>>
    [] x.t = "dict" -> DOMAIN x.v # {}
    [] OTHER        -> TRUE

\* x or y
PyOr(x, y) == IF Truthy(x) THEN x ELSE y

\* dict.get(key): the value, None when the key is absent
DictGet(d, key) == IF key \in DOMAIN d.v THEN d.v[key] ELSE PyNone

\* "%s" % x / str(x): the text a value is rendered as
Render(x) ==
  CASE x.t = "str"  -> x.v
    [] x.t = "none" -> <<"None">>
    [] x.t = "num"  -> <<"<num>">>
    [] OTHER        -> <<"<repr>">>

\* ------------------------------------------------------------------------
\* str.split("-", 1)[0], str.rstrip("/"), str.strip()
\* ------------------------------------------------------------------------
RECURSIVE SplitFirst(_, _)
SplitFirst(s, sep) ==
  IF s = <<>> \/ Head(s) = sep THEN <<>>
  ELSE <<Head(s)>> \o SplitFirst(Tail(s), sep)

RECURSIVE RStrip(_, _)
RStrip(s, chars) ==
  IF s # <<>> /\ s[Len(s)] \in chars THEN RStrip(SubSeq(s, 1, Len(s) - 1), chars)
  ELSE s

RECURSIVE LStrip(_, _)
LStrip(s, chars) ==
  IF s # <<>> /\ Head(s) \in chars THEN LStrip(Tail(s), chars)
  ELSE s

Whitespace == {" ", "\t", "\n", "\r"}

Strip(s) == LStrip(RStrip(s, Whitespace), Whitespace)

\* ------------------------------------------------------------------------
\* base64.b64decode(s) with the default validate=False
\* ------------------------------------------------------------------------
B64Alphabet ==
  << "A","B","C","D","E","F","G","H","I","J","K","L","M","N","O","P",
     "Q","R","S","T","U","V","W","X","Y","Z","a","b","c","d","e","f",
     "g","h","i","j","k","l","m","n","o","p","q","r","s","t","u","v",
     "w","x","y","z","0","1","2","3","4","5","6","7","8","9","+","/" >>

B64Chars == {B64Alphabet[i] : i \in 1..64}

B64Value(c) == (CHOOSE i \in 1..64 : B64Alphabet[i] = c) - 1

B64Pad == "="

\* a character outside ASCII (str.encode("ascii") rejects it)
NonAscii == {"U+00E9"}

Ok(val) == [ok |-> TRUE, val |-> val]
Raise(type, msg) == [ok |-> FALSE, type |-> type, msg |-> msg]

\* binascii.a2b_base64, non-strict: one character of the input loop.
\* Characters outside the alphabet are skipped; a complete pad sequence
\* ends the parse (done).
a2b_step(st, c) ==
  IF st.done THEN st
  ELSE IF c = B64Pad THEN
    IF st.quad_pos >= 2 /\ st.quad_pos + st.pads + 1 >= 4
    THEN [st EXCEPT !.done = TRUE]
    ELSE [st EXCEPT !.pads = IF st.quad_pos >= 2 THEN @ + 1 ELSE @]
  ELSE IF c \notin B64Chars THEN st
  ELSE
    LET d == B64Value(c) IN
    CASE st.quad_pos = 0 ->
           [st EXCEPT !.quad_pos = 1, !.leftchar = d, !.pads = 0]
      [] st.quad_pos = 1 ->
           [st EXCEPT !.quad_pos = 2, !.leftchar = d % 16, !.pads = 0,
                      !.out = Append(@, (st.leftchar * 4 + d \div 16) % 256)]
      [] st.quad_pos = 2 ->
           [st EXCEPT !.quad_pos = 3, !.leftchar = d % 4, !.pads = 0,
                      !.out = Append(@, (st.leftchar * 16 + d \div 4) % 256)]
      [] st.quad_pos = 3 ->
           [st EXCEPT !.quad_pos = 0, !.leftchar = 0, !.pads = 0,
                      !.out = Append(@, (st.leftchar * 64 + d) % 256)]

\* the loop over s[lo..hi], left to right
RECURSIVE a2b_loop(_, _, _, _)
a2b_loop(s, lo, hi, st) ==
  IF lo > hi THEN st
  ELSE IF lo = hi THEN a2b_step(st, s[lo])
  ELSE LET mid == (lo + hi) \div 2
           left == a2b_loop(s, lo, mid, st)
       IN IF left.done THEN left ELSE a2b_loop(s, mid + 1, hi, left)

\* a dangling quad at the end of the input fails
a2b_base64(s) ==
  LET st == a2b_loop(s, 1, Len(s),
                     [quad_pos |-> 0, leftchar |-> 0, pads |-> 0, out |-> <<>>, done |-> FALSE])
  IN
  IF st.done \/ st.quad_pos = 0 THEN Ok(st.out)
  ELSE IF st.quad_pos = 1
       THEN Raise("binascii.Error", <<"Invalid base64-encoded string: number of data characters cannot be 1 more than a multiple of 4">>)
       ELSE Raise("binascii.Error", <<"Incorrect padding">>)

b64decode(x) ==
  IF x.t # "str" THEN
    Raise("TypeError", <<"argument should be a bytes-like object or ASCII string">>)
  ELSE IF \E i \in 1..Len(x.v) : x.v[i] \in NonAscii THEN
    Raise("ValueError", <<"string argument should contain only ASCII characters">>)
  ELSE a2b_base64(x.v)

\* ------------------------------------------------------------------------
\* Process environment (os.getenv); fixed once the app is loaded
\* ------------------------------------------------------------------------
EnvNames ==
  { "AZURE_SPEECH_KEY", "AZURE_SPEECH_API_KEY",
    "AZURE_SPEECH_REGION", "AZURE_SPEECH_LOCATION",
    "AZURE_TRANSLATE_ENDPOINT", "AZURE_TRANSLATOR_ENDPOINT", "AZURE_TRANSLATOR_URL",
    "AZURE_TRANSLATE_KEY", "AZURE_TRANSLATOR_KEY",
    "AZURE_TRANSLATE_REGION", "AZURE_TRANSLATOR_REGION", "AZURE_TRANSLATOR_LOCATION" }

SpeechKeyText == <<"s", "k", "7">>
TranslatorKeyText == <<"t", "k", "9">>
EndpointText == <<"h", ":", "/", "/", "x">>

BaseEnv ==
  [n \in EnvNames |->
     CASE n = "AZURE_SPEECH_KEY"         -> PyStr(SpeechKeyText)
       [] n = "AZURE_SPEECH_REGION"      -> PyStr(<<"e", "u">>)
       [] n = "AZURE_TRANSLATE_ENDPOINT" -> PyStr(EndpointText)
       [] n = "AZURE_TRANSLATE_KEY"      -> PyStr(TranslatorKeyText)
       [] n = "AZURE_TRANSLATE_REGION"   -> PyStr(<<"w", "e">>)
       [] OTHER                          -> PyNone]

EnvWith(over) == [n \in EnvNames |-> IF n \in DOMAIN over THEN over[n] ELSE BaseEnv[n]]

Envs ==
  { BaseEnv,
    EnvWith([AZURE_SPEECH_KEY |-> PyNone]),
    EnvWith([AZURE_SPEECH_KEY |-> PyStr(<<>>), AZURE_SPEECH_API_KEY |-> PyStr(SpeechKeyText)]),
    EnvWith([AZURE_SPEECH_REGION |-> PyNone, AZURE_SPEECH_LOCATION |-> PyStr(<<"e", "u">>)]),
    EnvWith([AZURE_SPEECH_REGION |-> PyStr(<<>>)]),
    EnvWith([AZURE_TRANSLATE_ENDPOINT |-> PyNone]),
    EnvWith([AZURE_TRANSLATE_ENDPOINT |-> PyStr(<<"/">>)]),
    EnvWith([AZURE_TRANSLATE_ENDPOINT |-> PyNone,
             AZURE_TRANSLATOR_URL |-> PyStr(EndpointText \o <<"/">>)]),
    EnvWith([AZURE_TRANSLATE_KEY |-> PyNone]),
    EnvWith([AZURE_TRANSLATE_KEY |-> PyStr(<<>>), AZURE_TRANSLATOR_KEY |-> PyStr(TranslatorKeyText)]),
    EnvWith([AZURE_TRANSLATE_KEY |-> PyStr(TranslatorKeyText \o <<"\n">>)]),
    EnvWith([AZURE_TRANSLATE_REGION |-> PyStr(<<" ">>)]) }

\* ------------------------------------------------------------------------
\* Inbound request bodies (the result of req.get_json(), or malformed)
\* ------------------------------------------------------------------------
Malformed == [t |-> "malformed", v |-> <<>>]
Absent == [t |-> "absent", v |-> <<>>]

FieldNames == {"source_locale", "target_locale", "neural_voice", "audio_data"}

\* the JSON object whose members are the fields that are not Absent
JsonObject(sl, tl, nv, ad) ==
  LET all == [source_locale |-> sl, target_locale |-> tl, neural_voice |-> nv, audio_data |-> ad]
  IN PyDict([k \in {n \in FieldNames : all[n] # Absent} |-> all[k]])

SourceLocales == { Absent, PyStr(<<>>), PyStr(<<"e", "n", "-", "U", "S">>),
                   PyStr(<<"-", "U", "S">>), PyStr(<<"e", "n">>) }
TargetLocales == { PyNone, PyStr(<<"f", "r", "-", "F", "R">>), PyStr(<<"-", "F", "R">>), PyNum(5) }
NeuralVoices == { Absent, PyStr(<<>>), PyStr(<<"f", "r", "-", "V">>) }
RECURSIVE Repeat(_, _)
Repeat(s, n) == IF n = 0 THEN <<>> ELSE s \o Repeat(s, n - 1)

\* base64 of b"RIFF" followed by 41 zero bytes: a 45-byte WAV-framed payload
WavBase64 == <<"U", "k", "l", "G", "R", "g", "A", "A">> \o Repeat(<<"A", "A", "A", "A">>, 13)

AudioData ==
  { Absent, PyNum(5), PyStr(WavBase64),
    PyStr(<<"Q", "U", "I", "=">>),            \* canonical: b"AB"
    PyStr(<<"U", "k", "l", "G">>),            \* canonical: b"RIF"
    PyStr(<<"Q", "!", "U", "I", "=", "Q">>),  \* stray character, data after the pad
    PyStr(<<"!", "!">>),                      \* nothing but stray characters
    PyStr(<<"Q", "U", "I">>),                 \* pad missing
    PyStr(<<"Q">>),                           \* single data character
    PyStr(<<"Q", "U", "U+00E9", "=">>) }      \* not ASCII

Bodies ==
  { Malformed, PyNone, PyList(<<>>), PyStr(<<"x">>), PyNum(5) }
  \cup { JsonObject(sl, tl, nv, ad) :
           sl \in SourceLocales, tl \in TargetLocales, nv \in NeuralVoices, ad \in AudioData }

\* ------------------------------------------------------------------------
\* Outcomes of the remote capabilities
\* ------------------------------------------------------------------------
HelloText == <<"h", "i">>
BonjourText == <<"y", "o">>
SynthAudio == <<82, 73, 70, 70, 1>>

\* recognizer.recognize_once(): result.reason with its payload, or an SDK error
\* (creason, details: result.cancellation_details of a canceled pass)
RecognizerOutcomes ==
  { [reason |-> "RecognizedSpeech", text |-> HelloText, creason |-> <<>>, details |-> <<>>],
    [reason |-> "RecognizedSpeech", text |-> <<>>, creason |-> <<>>, details |-> <<>>],
    [reason |-> "NoMatch", text |-> <<>>, creason |-> <<>>, details |-> <<>>],
    [reason |-> "NoMatch", text |-> HelloText, creason |-> <<>>, details |-> <<>>],
    [reason |-> "Canceled", text |-> <<>>,
     creason |-> <<"CancellationReason.Error">>, details |-> <<"a", "u", "t", "h">>],
    [reason |-> "Canceled", text |-> <<>>,
     creason |-> <<"CancellationReason.EndOfStream">>, details |-> <<>>],
    [reason |-> "RecognizingSpeech", text |-> HelloText, creason |-> <<>>, details |-> <<>>],
    [reason |-> "raise", text |-> <<"SPXERR_INVALID_ARG">>, creason |-> <<>>, details |-> <<>>] }

NotJson == [t |-> "notjson", v |-> <<>>]

GoodBody ==
  PyList(<< PyDict([translations |-> PyList(<< PyDict([text |-> PyStr(BonjourText)]) >>)]) >>)

\* requests.post(...): a transport failure or an HTTP response
TranslatorOutcomes ==
  { [kind |-> "transport", status |-> 0, json |-> NotJson, text |-> <<"ConnectTimeout">>],
    [kind |-> "response", status |-> 200, json |-> GoodBody, text |-> <<"[{translations:[{text:", "y", "o", "}]}]">>],
    [kind |-> "response", status |-> 200, json |-> PyList(<<>>), text |-> <<"[]">>],
    [kind |-> "response", status |-> 200, json |-> PyDict([error |-> PyNum(1)]), text |-> <<"{error:1}">>],
    [kind |-> "response", status |-> 200, json |-> PyStr(<<"x">>), text |-> <<"'x'">>],
    [kind |-> "response", status |-> 200, json |-> NotJson, text |-> <<"<html>">>],
    [kind |-> "response", status |-> 201, json |-> GoodBody, text |-> <<"[{translations:[{text:", "y", "o", "}]}]">>],
    [kind |-> "response", status |-> 403, json |-> PyDict([error |-> PyNum(1)]), text |-> <<"{error:1}">>],
    [kind |-> "response", status |-> 500, json |-> NotJson, text |-> <<"<html>">>] }

\* synthesizer.speak_text_async(text).get(): result.reason with its payload
SynthesizerOutcomes ==
  { [reason |-> "SynthesizingAudioCompleted", audio |-> SynthAudio, text |-> <<>>],
    [reason |-> "Canceled", audio |-> <<>>, text |-> <<"CancellationReason.Error", ", ", "quota">>],
    [reason |-> "SynthesizingAudio", audio |-> <<>>, text |-> <<>>] }

\* ------------------------------------------------------------------------
\* Results of a stage function: its value or exception, what it logged,
\* and the remote calls it made
\* ------------------------------------------------------------------------
Log(level, text) == [level |-> level, text |-> text]

Stage(res, lg, cl) == [res |-> res, logs |-> lg, calls |-> cl]

RecognizeCall(audio, locale, key, region, o) ==
  [cap |-> "recognize", audio |-> audio, text |-> <<>>, locale |-> locale,
   voice |-> <<>>, url |-> <<>>, headers |-> << >>, key |-> key, region |-> region,
   reply |-> o]

TranslateCall(url, headers, text, o) ==
  [cap |-> "translate", audio |-> <<>>, text |-> text, locale |-> PyNone,
   voice |-> <<>>, url |-> url, headers |-> headers, key |-> <<>>, region |-> <<>>,
   reply |-> o]

SynthesizeCall(text, voice, key, region, o) ==
  [cap |-> "synthesize", audio |-> <<>>, text |-> text, locale |-> PyNone,
   voice |-> voice, url |-> <<>>, headers |-> << >>, key |-> key, region |-> region,
   reply |-> o]

\* ------------------------------------------------------------------------
\* speech_to_text(audio_bytes, locale)
\* ------------------------------------------------------------------------
WavHeaderLen == 44
RiffMarker == <<82, 73, 70, 70>>

\* a test that looks at the length only
HasWavHeader_LengthOnly(audio_bytes) == Len(audio_bytes) > WavHeaderLen

\* a test that takes a payload of exactly the header's length as framed
HasWavHeader_AtLeast(audio_bytes) ==
  Len(audio_bytes) >= WavHeaderLen /\ SubSeq(audio_bytes, 1, 4) = RiffMarker

HasWavHeader(audio_bytes) ==
  Len(audio_bytes) > WavHeaderLen /\ SubSeq(audio_bytes, 1, 4) = RiffMarker

\* a payload that loses the marker only
StripWavHeader_MarkerOnly(audio_bytes) ==
  IF HasWavHeader(audio_bytes)
  THEN SubSeq(audio_bytes, Len(RiffMarker) + 1, Len(audio_bytes))
  ELSE audio_bytes

\* the payload written to the push stream
StripWavHeader(audio_bytes) ==
  IF HasWavHeader(audio_bytes)
  THEN SubSeq(audio_bytes, WavHeaderLen + 1, Len(audio_bytes))
  ELSE audio_bytes

SttSpeechKey(e) == PyOr(e["AZURE_SPEECH_KEY"], e["AZURE_SPEECH_API_KEY"])
SttSpeechRegion(e) == PyOr(e["AZURE_SPEECH_REGION"], e["AZURE_SPEECH_LOCATION"])

\* a check that lets a half-configured pair through
SttCredentialsMissing_BothOnly(e) == ~Truthy(SttSpeechKey(e)) /\ ~Truthy(SttSpeechRegion(e))

\* if not speech_key or not speech_region
SttCredentialsMissing(e) == ~Truthy(SttSpeechKey(e)) \/ ~Truthy(SttSpeechRegion(e))

\* a mapping that looks at the text before the reason
SttOutcome_TextFirst(o) ==
  CASE o.reason = "raise" -> Raise("RuntimeError", o.text)
    [] o.reason # "raise" /\ o.text # <<>> -> Ok(PyStr(o.text))
    [] o.reason = "NoMatch" /\ o.text = <<>> ->
         Raise("RuntimeError", <<"STT failed: No speech could be recognized">>)
    [] o.reason = "Canceled" /\ o.text = <<>> ->
         Raise("RuntimeError", <<"STT canceled: ">> \o o.creason \o <<", ">> \o o.details)
    [] OTHER -> Raise("RuntimeError", <<"STT failed: ", "ResultReason.">> \o <<o.reason>>)

\* the mapping of result.reason to the stage's result (lines 143-151); an
\* error of the SDK itself propagates
SttOutcome(o) ==
  CASE o.reason = "raise" -> Raise("RuntimeError", o.text)
    [] o.reason = "RecognizedSpeech" -> Ok(PyStr(o.text))
    [] o.reason = "NoMatch" ->
         Raise("RuntimeError", <<"STT failed: No speech could be recognized">>)
    [] o.reason = "Canceled" ->
         Raise("RuntimeError", <<"STT canceled: ">> \o o.creason \o <<", ">> \o o.details)
    [] OTHER -> Raise("RuntimeError", <<"STT failed: ", "ResultReason.">> \o <<o.reason>>)

speech_to_text(audio_bytes, locale, e, o) ==
  LET speech_key == SttSpeechKey(e)
      speech_region == SttSpeechRegion(e)
      lg1 == << Log("info", <<"Stage speech_to_text config: region=">> \o Render(speech_region)
                              \o <<" locale=">> \o Render(locale)) >>
      lg2 == IF HasWavHeader(audio_bytes)
             THEN << Log("info", <<"WAV header detected, stripping 44 bytes">>) >>
             ELSE << >>
      call == << RecognizeCall(StripWavHeader(audio_bytes), locale, speech_key.v, speech_region.v, o) >>
  IN
  IF SttCredentialsMissing(e) THEN
    Stage(Raise("RuntimeError", <<"Azure Speech credentials are not configured">>), << >>, << >>)
  ELSE
    Stage(SttOutcome(o), lg1 \o lg2, call)

\* ------------------------------------------------------------------------
\* translate_text(text, source_locale, target_locale)
\* ------------------------------------------------------------------------
\* an extraction that yields no code for a locale without a separator
_extract_language_code_SeparatorRequired(locale) ==
  IF ~Truthy(locale) THEN Ok(<<>>)
  ELSE IF locale.t # "str"
       THEN Raise("AttributeError", <<"object has no attribute 'split'">>)
       ELSE IF \E i \in 1..Len(locale.v) : locale.v[i] = "-"
            THEN Ok(SplitFirst(locale.v, "-"))
            ELSE Ok(<<>>)

\* locale.split("-", 1)[0] if locale else ""
_extract_language_code(locale) ==
  IF ~Truthy(locale) THEN Ok(<<>>)
  ELSE IF locale.t # "str"
       THEN Raise("AttributeError", <<"object has no attribute 'split'">>)
       ELSE Ok(SplitFirst(locale.v, "-"))

\* x[k] of Python for decoded JSON: list/str by position, dict by key
GetItem(x, k) ==
  CASE x.t = "list" /\ k.t = "num" ->
         IF k.v + 1 \in 1..Len(x.v) THEN Ok(x.v[k.v + 1])
         ELSE Raise("IndexError", <<"list index out of range">>)
    [] x.t = "str" /\ k.t = "num" ->
         IF k.v + 1 \in 1..Len(x.v) THEN Ok(PyStr(<<x.v[k.v + 1]>>))
         ELSE Raise("IndexError", <<"string index out of range">>)
    [] x.t = "dict" ->
         IF k.t = "str" /\ k.v \in DOMAIN x.v THEN Ok(x.v[k.v])
         ELSE Raise("KeyError", <<ToString(k.v)>>)
    [] OTHER -> Raise("TypeError", <<"indices must be integers or object is not subscriptable">>)

\* result[0]["translations"][0]["text"]
ExtractTranslation(result) ==
  LET r1 == GetItem(result, PyNum(0)) IN
  IF ~r1.ok THEN r1 ELSE
  LET r2 == GetItem(r1.val, [t |-> "str", v |-> "translations"]) IN
  IF ~r2.ok THEN r2 ELSE
  LET r3 == GetItem(r2.val, PyNum(0)) IN
  IF ~r3.ok THEN r3 ELSE
  GetItem(r3.val, [t |-> "str", v |-> "text"])

KeyHeader == "Ocp-Apim-Subscription-Key"
RegionHeader == "Ocp-Apim-Subscription-Region"
ContentTypeHeader == "Content-Type"
HeaderOrder == <<KeyHeader, ContentTypeHeader, RegionHeader>>

\* str(headers): the members in insertion order
RECURSIVE RenderHeaders(_, _)
RenderHeaders(h, i) ==
  IF i > Len(HeaderOrder) THEN <<>>
  ELSE (IF HeaderOrder[i] \in DOMAIN h
        THEN <<HeaderOrder[i], ": ">> \o h[HeaderOrder[i]] \o <<", ">>
        ELSE <<>>) \o RenderHeaders(h, i + 1)

\* {k: v for k, v in headers.items() if k != "Ocp-Apim-Subscription-Key"}
SafeHeaders(headers) == [k \in DOMAIN headers \ {KeyHeader} |-> headers[k]]

\* repr() of a header value: a line break is shown escaped
ReprText(val) == [i \in 1..Len(val) |-> IF val[i] = "\n" THEN "\\n" ELSE val[i]]

\* http.client refuses a header value with a bare line break
IllegalHeaderValue(val) ==
  \E i \in 1..Len(val) :
     /\ val[i] = "\n"
     /\ (i = Len(val) \/ val[i + 1] \notin {" ", "\t"})

TranslatorEndpoint(e) ==
  LET raw_endpoint == PyOr(e["AZURE_TRANSLATE_ENDPOINT"],
                        PyOr(e["AZURE_TRANSLATOR_ENDPOINT"], e["AZURE_TRANSLATOR_URL"]))
  IN IF Truthy(raw_endpoint) THEN PyStr(RStrip(raw_endpoint.v, {"/"})) ELSE PyNone

TranslatorKey(e) == PyOr(e["AZURE_TRANSLATE_KEY"], e["AZURE_TRANSLATOR_KEY"])

TranslatorRegion(e) ==
  Strip(PyOr(e["AZURE_TRANSLATE_REGION"],
          PyOr(e["AZURE_TRANSLATOR_REGION"],
            PyOr(e["AZURE_TRANSLATOR_LOCATION"], PyStr(<<>>)))).v)

\* if not endpoint or not key
TranslatorCredentialsMissing(e) == ~Truthy(TranslatorEndpoint(e)) \/ ~Truthy(TranslatorKey(e))

translate_text(text, source_locale, target_locale, e, o) ==
  LET from_lang == _extract_language_code(source_locale)
      to_lang == _extract_language_code(target_locale)
      endpoint == TranslatorEndpoint(e)
      key == TranslatorKey(e)
      region_value == TranslatorRegion(e)
  IN
  IF ~from_lang.ok THEN Stage(from_lang, << >>, << >>)
  ELSE IF ~to_lang.ok THEN Stage(to_lang, << >>, << >>)
  ELSE IF from_lang.val = <<>> \/ to_lang.val = <<>> THEN
    Stage(Raise("RuntimeError", <<"Invalid locale provided for translation">>), << >>, << >>)
  ELSE IF TranslatorCredentialsMissing(e) THEN
    Stage(Raise("RuntimeError", <<"Azure Translator credentials are not configured">>), << >>, << >>)
  ELSE
    LET url == endpoint.v \o <<"/translate?api-version=3.0&from=">> \o from_lang.val
                 \o <<"&to=">> \o to_lang.val
        base == (KeyHeader :> key.v) @@ (ContentTypeHeader :> <<"application/json">>)
        headers == IF region_value # <<>> THEN base @@ (RegionHeader :> region_value) ELSE base
        lg1 == << Log("info", <<"Translating from ">> \o from_lang.val \o <<" to ">> \o to_lang.val),
                  Log("info", <<"URL: ">> \o url),
                  Log("info", <<"Region header included: ">>
                                \o (IF region_value # <<>> THEN <<"True">> ELSE <<"False">>)
                                \o <<" (">> \o (IF region_value # <<>> THEN region_value ELSE <<"None">>)
                                \o <<")">>) >>
        call == << TranslateCall(url, headers, Render(text), o) >>
        lgerr == << Log("error", <<"Translator API error: status=", ToString(o.status), " body=">>
                                   \o o.text \o <<" headers=">> \o RenderHeaders(SafeHeaders(headers), 1)) >>
        httperr == <<ToString(o.status), IF o.status < 500 THEN " Client Error" ELSE " Server Error",
                     " for url: ">> \o url
        lgfail(msg) == << Log("error", <<"Translation request failed: ">> \o msg) >>
        parsed == ExtractTranslation(o.json)
    IN
    IF IllegalHeaderValue(key.v) THEN
      Stage(Raise("ValueError", <<"Invalid header value b'">> \o ReprText(key.v) \o <<"'">>), lg1, << >>)
    ELSE IF o.kind = "transport" THEN
      Stage(Raise("RequestException", o.text \o <<" url: ">> \o url),
            lg1 \o lgfail(o.text \o <<" url: ">> \o url), call)
    ELSE IF o.status >= 400 /\ o.status < 600 THEN
      Stage(Raise("RequestException", httperr), lg1 \o lgerr \o lgfail(httperr), call)
    ELSE
      LET lg2 == lg1 \o (IF o.status # 200 THEN lgerr ELSE << >>) IN
      IF o.json = NotJson THEN
        Stage(Raise("JSONDecodeError", <<"Expecting value: line 1 column 1 (char 0)">>), lg2, call)
      ELSE IF parsed.ok THEN
        Stage(parsed, lg2 \o << Log("info", <<"Translation successful: ">> \o Render(parsed.val)) >>, call)
      ELSE IF parsed.type \in {"KeyError", "IndexError"} THEN
        Stage(Raise("RuntimeError", <<"Translator unexpected response: ">> \o o.text), lg2, call)
      ELSE Stage(parsed, lg2, call)

\* ------------------------------------------------------------------------
\* text_to_speech(text, target_locale, neural_voice)
\* ------------------------------------------------------------------------
TtsSpeechKey(e) == e["AZURE_SPEECH_KEY"]
TtsSpeechRegion(e) == e["AZURE_SPEECH_REGION"]

\* if not speech_key or not speech_region
TtsCredentialsMissing(e) == ~Truthy(TtsSpeechKey(e)) \/ ~Truthy(TtsSpeechRegion(e))

text_to_speech(text, target_locale, neural_voice, e, o) ==
  LET speech_key == TtsSpeechKey(e)
      speech_region == TtsSpeechRegion(e)
      lg1 == << Log("info", <<"Stage text_to_speech config: region=">> \o Render(speech_region)
                              \o <<" locale=">> \o Render(target_locale)
                              \o <<" voice=">> \o Render(neural_voice)) >>
      call == << SynthesizeCall(Render(text), Render(neural_voice), speech_key.v, speech_region.v, o) >>
  IN
  IF TtsCredentialsMissing(e) THEN
    Stage(Raise("RuntimeError", <<"Azure Speech credentials are not configured">>), << >>, << >>)
  ELSE
    CASE o.reason = "SynthesizingAudioCompleted" ->
           Stage(Ok(o.audio), lg1, call)
      [] o.reason = "Canceled" ->
           Stage(Raise("RuntimeError", <<"TTS canceled: ">> \o o.text), lg1, call)
      [] OTHER ->
           Stage(Raise("RuntimeError", <<"TTS failed: ", "ResultReason.">> \o <<o.reason>>), lg1, call)

\* ------------------------------------------------------------------------
\* The HTTP handler translate(req)
\* ------------------------------------------------------------------------
VARIABLES
  env,              \* os.environ after load_dotenv
  served,           \* requests received so far
  pc,               \* position of the handler
  request,          \* the inbound body
  source_locale, target_locale, neural_voice, audio_data_b64,
  audio_bytes, current_stage,
  transcribed_text, translated_text, translated_audio,
  responses,        \* HTTP responses returned for the request
  escaped,          \* exception that left the handler, if any
  logs,             \* log records emitted for the request
  calls,            \* remote calls made for the request
  trace,            \* stage functions entered / returned / raised
  other             \* the frame of a second invocation of the handler, suspended

vars == << env, served, pc, request, source_locale, target_locale, neural_voice,
           audio_data_b64, audio_bytes, current_stage, transcribed_text,
           translated_text, translated_audio, responses, escaped, logs, calls, trace,
           other >>

locals == << source_locale, target_locale, neural_voice, audio_data_b64, audio_bytes,
             transcribed_text, translated_text, translated_audio >>

NoException == [ok |-> TRUE, val |-> PyNone]

\* func.HttpResponse(json.dumps({...}), status_code=..., mimetype="application/json")
JsonResponse(status, error, stage) ==
  [status |-> status, mimetype |-> "application/json", error |-> error,
   stage |-> stage, audio |-> <<>>]

\* a success response that carries the request's audio instead
AudioResponse_Echo(audio) ==
  [status |-> 200, mimetype |-> "audio/wav", error |-> <<>>, stage |-> "", audio |-> audio_bytes]

\* func.HttpResponse(body=..., status_code=200, mimetype="audio/wav")
AudioResponse(audio) ==
  [status |-> 200, mimetype |-> "audio/wav", error |-> <<>>, stage |-> "", audio |-> audio]

Enter(stage, a1, a2, a3) == [ev |-> "enter", stage |-> stage, a1 |-> a1, a2 |-> a2, a3 |-> a3]
Leave(stage, r) ==
  [ev |-> IF r.ok THEN "return" ELSE "raise", stage |-> stage,
   a1 |-> IF r.ok THEN r.val ELSE PyStr(r.msg), a2 |-> PyNone, a3 |-> PyNone]

\* the local variables of one invocation of translate(req), with what the
\* invocation has logged, called and answered
Frame ==
  [served |-> served, pc |-> pc, request |-> request,
   source_locale |-> source_locale, target_locale |-> target_locale,
   neural_voice |-> neural_voice, audio_data_b64 |-> audio_data_b64,
   audio_bytes |-> audio_bytes, current_stage |-> current_stage,
   transcribed_text |-> transcribed_text, translated_text |-> translated_text,
   translated_audio |-> translated_audio, responses |-> responses,
   escaped |-> escaped, logs |-> logs, calls |-> calls, trace |-> trace]

\* an invocation that has not received its request yet
IdleFrame ==
  [served |-> 0, pc |-> "idle", request |-> PyNone,
   source_locale |-> PyNone, target_locale |-> PyNone,
   neural_voice |-> PyNone, audio_data_b64 |-> PyNone,
   audio_bytes |-> <<>>, current_stage |-> "",
   transcribed_text |-> PyNone, translated_text |-> PyNone,
   translated_audio |-> <<>>, responses |-> <<>>,
   escaped |-> NoException, logs |-> <<>>, calls |-> <<>>, trace |-> <<>>]

Init ==
  /\ env \in Envs
  /\ other = IdleFrame
  /\ served = 0
  /\ pc = "idle"
  /\ request = PyNone
  /\ source_locale = PyNone /\ target_locale = PyNone
  /\ neural_voice = PyNone /\ audio_data_b64 = PyNone
  /\ audio_bytes = <<>>
  /\ current_stage = ""
  /\ transcribed_text = PyNone /\ translated_text = PyNone
  /\ translated_audio = <<>>
  /\ responses = <<>>
  /\ escaped = NoException
  /\ logs = <<>>
  /\ calls = <<>>
  /\ trace = <<>>

\* the host invokes the handler with a new request (lines 18-25)
Receive(body) ==
  /\ pc \in {"idle", "done", "crashed"}
  /\ served < MaxRequests
  /\ served' = served + 1
  /\ request' = body
  /\ pc' = "parse_request"
  /\ current_stage' = "parse_request"
  /\ source_locale' = PyNone /\ target_locale' = PyNone
  /\ neural_voice' = PyNone /\ audio_data_b64' = PyNone
  /\ audio_bytes' = <<>>
  /\ transcribed_text' = PyNone /\ translated_text' = PyNone
  /\ translated_audio' = <<>>
  /\ responses' = <<>>
  /\ escaped' = NoException
  /\ logs' = << Log("info", <<"Translation request received">>) >>
  /\ calls' = <<>>
  /\ trace' = <<>>
  /\ UNCHANGED << env, other >>

\* req.get_json(), the four .get() and the required-fields check (lines 27-55)
ParseRequest ==
  /\ pc = "parse_request"
  /\ IF request = Malformed THEN
       /\ logs' = Append(logs, Log("error", <<"Invalid JSON payload">>))
       /\ responses' = Append(responses, JsonResponse(400, <<"Invalid JSON payload">>, ""))
       /\ pc' = "done"
       /\ UNCHANGED << locals, escaped >>
     ELSE IF request.t # "dict" THEN
       /\ escaped' = Raise("AttributeError", <<"object has no attribute 'get'">>)
       /\ pc' = "crashed"
       /\ UNCHANGED << locals, responses, logs >>
     ELSE
       LET sl == DictGet(request, "source_locale")
           tl == DictGet(request, "target_locale")
           nv == DictGet(request, "neural_voice")
           ad == DictGet(request, "audio_data")
       IN
       /\ source_locale' = sl /\ target_locale' = tl
       /\ neural_voice' = nv /\ audio_data_b64' = ad
       /\ UNCHANGED << audio_bytes, transcribed_text, translated_text, translated_audio, escaped >>
       /\ IF ~(Truthy(sl) /\ Truthy(tl) /\ Truthy(nv) /\ Truthy(ad)) THEN
            /\ logs' = Append(logs, Log("warning", <<"Missing required fields in request body">>))
            /\ responses' = Append(responses, JsonResponse(400, <<"Missing required fields">>, ""))
            /\ pc' = "done"
          ELSE
            /\ logs' = Append(logs, Log("info", <<"Processing request: ">> \o Render(sl) \o <<" -> ">>
                                          \o Render(tl) \o <<", voice: ">> \o Render(nv)))
            /\ responses' = responses
            /\ pc' = "decode_audio"
  /\ UNCHANGED << env, other, served, request, current_stage, calls, trace >>

\* base64.b64decode(audio_data_b64) (lines 57-68)
DecodeAudio ==
  /\ pc = "decode_audio"
  /\ current_stage' = "decode_audio"
  /\ LET r == b64decode(audio_data_b64) IN
     IF r.ok THEN
       /\ audio_bytes' = r.val
       /\ logs' = Append(logs, Log("info", <<"Stage decode_audio complete: ", ToString(Len(r.val)), " bytes decoded">>))
       /\ responses' = responses
       /\ pc' = "enter_speech_to_text"
     ELSE
       /\ audio_bytes' = audio_bytes
       /\ logs' = Append(logs, Log("error", <<"Failed to decode audio data at stage decode_audio: ">> \o r.msg))
       /\ responses' = Append(responses,
                          JsonResponse(400, <<"Invalid audio data: ">> \o r.msg, "decode_audio"))
       /\ pc' = "done"
  /\ UNCHANGED << env, other, served, request, source_locale, target_locale, neural_voice,
                  audio_data_b64, transcribed_text, translated_text, translated_audio,
                  escaped, calls, trace >>

\* a handler that runs the failed stage again instead of answering
PipelineFailed_Retry(stage, exc, lg) ==
  /\ logs' = logs \o lg
  /\ responses' = responses
  /\ pc' = stage

\* except Exception as exc: (lines 84-90)
PipelineFailed(stage, exc, lg) ==
  /\ logs' = logs \o lg \o << Log("error", <<"Processing pipeline failed at stage ", stage, ": ">> \o exc.msg) >>
  /\ responses' = Append(responses, JsonResponse(500, exc.msg, stage))
  /\ pc' = "done"

\* current_stage = "speech_to_text" (line 71)
SetStageSpeechToText ==
  /\ pc = "enter_speech_to_text"
  /\ current_stage' = "speech_to_text"
  /\ pc' = "speech_to_text"
  /\ UNCHANGED << env, other, served, request, locals, responses, escaped, logs, calls, trace >>

\* lines 72-73, and the except clause when the call raises
SpeechToText(o) ==
  /\ pc = "speech_to_text"
  /\ LET r == speech_to_text(audio_bytes, source_locale, env, o) IN
     /\ calls' = calls \o r.calls
     /\ trace' = trace \o << Enter("speech_to_text", PyList(audio_bytes), source_locale, PyNone),
                             Leave("speech_to_text", r.res) >>
     /\ IF r.res.ok THEN
          /\ transcribed_text' = r.res.val
          /\ logs' = logs \o r.logs \o << Log("info", <<"Stage ", current_stage, " output: ">> \o Render(r.res.val)) >>
          /\ responses' = responses
          /\ pc' = "enter_translate_text"
        ELSE
          /\ transcribed_text' = transcribed_text
          /\ PipelineFailed(current_stage, r.res, r.logs)
  /\ UNCHANGED << env, other, served, request, source_locale, target_locale, neural_voice,
                  audio_data_b64, audio_bytes, translated_text, translated_audio, escaped,
                  current_stage >>

\* the label assigned to current_stage before translate_text is called (line 75);
\* below, the label left over from the previous stage
StaleTranslateStage == "speech_to_text"

TranslateStage == "translate_text"

\* the arguments with the two locales exchanged
TranslateArgs_Swapped == << transcribed_text, target_locale, source_locale >>

\* translate_text(transcribed_text, source_locale, target_locale) (lines 76-78)
TranslateArgs == << transcribed_text, source_locale, target_locale >>

\* current_stage = "translate_text" (line 75)
SetStageTranslateText ==
  /\ pc = "enter_translate_text"
  /\ current_stage' = TranslateStage
  /\ pc' = "translate_text"
  /\ UNCHANGED << env, other, served, request, locals, responses, escaped, logs, calls, trace >>

\* lines 76-79, and the except clause when the call raises
TranslateText(o) ==
  /\ pc = "translate_text"
  /\ LET a == TranslateArgs
         r == translate_text(a[1], a[2], a[3], env, o) IN
     /\ calls' = calls \o r.calls
     /\ trace' = trace \o << Enter("translate_text", a[1], a[2], a[3]),
                             Leave("translate_text", r.res) >>
     /\ IF r.res.ok THEN
          /\ translated_text' = r.res.val
          /\ logs' = logs \o r.logs \o << Log("info", <<"Stage ", current_stage, " output: ">> \o Render(r.res.val)) >>
          /\ responses' = responses
          /\ pc' = "enter_text_to_speech"
        ELSE
          /\ translated_text' = translated_text
          /\ PipelineFailed(current_stage, r.res, r.logs)
  /\ UNCHANGED << env, other, served, request, source_locale, target_locale, neural_voice,
                  audio_data_b64, audio_bytes, transcribed_text, translated_audio, escaped,
                  current_stage >>

\* current_stage = "text_to_speech" (line 81)
SetStageTextToSpeech ==
  /\ pc = "enter_text_to_speech"
  /\ current_stage' = "text_to_speech"
  /\ pc' = "text_to_speech"
  /\ UNCHANGED << env, other, served, request, locals, responses, escaped, logs, calls, trace >>

\* lines 82-83, and the except clause when the call raises
TextToSpeech(o) ==
  /\ pc = "text_to_speech"
  /\ LET r == text_to_speech(translated_text, target_locale, neural_voice, env, o) IN
     /\ calls' = calls \o r.calls
     /\ trace' = trace \o << Enter("text_to_speech", translated_text, target_locale, neural_voice),
                             Leave("text_to_speech", IF r.res.ok THEN Ok(PyList(r.res.val)) ELSE r.res) >>
     /\ IF r.res.ok THEN
          /\ translated_audio' = r.res.val
          /\ logs' = logs \o r.logs \o << Log("info", <<"Stage ", current_stage, " complete: ",
                                                    ToString(Len(r.res.val)), " bytes generated">>) >>
          /\ responses' = responses
          /\ pc' = "return_audio"
        ELSE
          /\ translated_audio' = translated_audio
          /\ PipelineFailed(current_stage, r.res, r.logs)
  /\ UNCHANGED << env, other, served, request, source_locale, target_locale, neural_voice,
                  audio_data_b64, audio_bytes, transcribed_text, translated_text, escaped,
                  current_stage >>

\* lines 92-96
ReturnAudio ==
  /\ pc = "return_audio"
  /\ responses' = Append(responses, AudioResponse(translated_audio))
  /\ pc' = "done"
  /\ UNCHANGED << env, other, served, request, locals, current_stage, escaped, logs, calls, trace >>

\* a handler in which current_stage is one variable of the module, not a
\* local: the running invocation keeps the value the suspended one sees
Switch_SharedStage ==
  /\ other' = Frame
  /\ served' = other.served /\ pc' = other.pc /\ request' = other.request
  /\ source_locale' = other.source_locale /\ target_locale' = other.target_locale
  /\ neural_voice' = other.neural_voice /\ audio_data_b64' = other.audio_data_b64
  /\ audio_bytes' = other.audio_bytes /\ current_stage' = current_stage
  /\ transcribed_text' = other.transcribed_text
  /\ translated_text' = other.translated_text
  /\ translated_audio' = other.translated_audio
  /\ responses' = other.responses /\ escaped' = other.escaped
  /\ logs' = other.logs /\ calls' = other.calls /\ trace' = other.trace
  /\ UNCHANGED env

\* the host runs two invocations of translate(req) at once: the running one
\* is suspended with its locals and the other one resumes with its own
\* (every variable of lines 25-83 is a local of the invocation)
Switch ==
  /\ other' = Frame
  /\ served' = other.served /\ pc' = other.pc /\ request' = other.request
  /\ source_locale' = other.source_locale /\ target_locale' = other.target_locale
  /\ neural_voice' = other.neural_voice /\ audio_data_b64' = other.audio_data_b64
  /\ audio_bytes' = other.audio_bytes /\ current_stage' = other.current_stage
  /\ transcribed_text' = other.transcribed_text
  /\ translated_text' = other.translated_text
  /\ translated_audio' = other.translated_audio
  /\ responses' = other.responses /\ escaped' = other.escaped
  /\ logs' = other.logs /\ calls' = other.calls /\ trace' = other.trace
  /\ UNCHANGED env

Next ==
  \/ \E body \in Bodies : Receive(body)
  \/ ParseRequest
  \/ DecodeAudio
  \/ SetStageSpeechToText
  \/ \E o \in RecognizerOutcomes : SpeechToText(o)
  \/ SetStageTranslateText
  \/ \E o \in TranslatorOutcomes : TranslateText(o)
  \/ SetStageTextToSpeech
  \/ \E o \in SynthesizerOutcomes : TextToSpeech(o)
  \/ ReturnAudio

Spec == Init /\ [][Next]_vars

\* ------------------------------------------------------------------------
\* Two invocations handled at once
\* ------------------------------------------------------------------------
ConcEnvs ==
  { BaseEnv,
    EnvWith([AZURE_SPEECH_KEY |-> PyStr(<<>>), AZURE_SPEECH_API_KEY |-> PyStr(SpeechKeyText)]),
    EnvWith([AZURE_TRANSLATE_KEY |-> PyNone]) }

ConcBodies ==
  { Malformed, PyNone,
    JsonObject(PyStr(<<"e", "n", "-", "U", "S">>), PyStr(<<"f", "r", "-", "F", "R">>),
               PyStr(<<"f", "r", "-", "V">>), PyStr(WavBase64)),
    JsonObject(PyStr(<<"e", "n">>), PyStr(<<"-", "F", "R">>),
               PyStr(<<"f", "r", "-", "V">>), PyStr(<<"Q", "U", "I", "=">>)),
    JsonObject(PyStr(<<"e", "n", "-", "U", "S">>), PyStr(<<"f", "r", "-", "F", "R">>),
               PyStr(<<"f", "r", "-", "V">>), PyStr(<<"Q">>)) }

ConcRecognizerOutcomes == { o \in RecognizerOutcomes : o.reason \in {"RecognizedSpeech", "NoMatch"} }
ConcTranslatorOutcomes == { o \in TranslatorOutcomes : o.status \in {200, 403} /\ o.json # NotJson }
ConcSynthesizerOutcomes == { o \in SynthesizerOutcomes : o.reason # "SynthesizingAudio" }

InitConc == Init /\ env \in ConcEnvs

NextConc ==
  \/ \E body \in ConcBodies : Receive(body)
  \/ ParseRequest
  \/ DecodeAudio
  \/ SetStageSpeechToText
  \/ \E o \in ConcRecognizerOutcomes : SpeechToText(o)
  \/ SetStageTranslateText
  \/ \E o \in ConcTranslatorOutcomes : TranslateText(o)
  \/ SetStageTextToSpeech
  \/ \E o \in ConcSynthesizerOutcomes : TextToSpeech(o)
  \/ ReturnAudio
  \/ Switch

SpecConc == InitConc /\ [][NextConc]_vars

\* ------------------------------------------------------------------------
\* Requests over a range of audio payloads
\* ------------------------------------------------------------------------
MaxAudioLen == 90

\* the base64 text a client sends for the bytes b (the inverse of line 59)
B64Encode(b) ==
  LET n == Len(b)
      byte(j) == IF j <= n THEN b[j] ELSE 0
      ch(i) ==
        LET g == (i - 1) \div 4
            k == (i - 1) % 4
            b0 == byte(3 * g + 1)
            b1 == byte(3 * g + 2)
            b2 == byte(3 * g + 3)
            v == CASE k = 0 -> b0 \div 4
                   [] k = 1 -> (b0 % 4) * 16 + (b1 \div 16)
                   [] k = 2 -> (b1 % 16) * 4 + (b2 \div 64)
                   [] k = 3 -> b2 % 64
        IN IF (k = 2 /\ 3 * g + 2 > n) \/ (k = 3 /\ 3 * g + 3 > n)
           THEN B64Pad ELSE B64Alphabet[v + 1]
  IN [i \in 1..(4 * ((n + 2) \div 3)) |-> ch(i)]

\* n bytes that begin with head and go on with bytes that tell their position
Sample(head, n) == [i \in 1..n |-> IF i <= Len(head) THEN head[i] ELSE i]

AudioLengths ==
  { 0, 3, 4, 5, WavHeaderLen - 1, WavHeaderLen, WavHeaderLen + 1, WavHeaderLen + 4,
    2 * WavHeaderLen, 2 * WavHeaderLen + 1, MaxAudioLen }

\* payloads with the RIFF marker, with another marker and with none, and
\* one whose bytes after the header begin with the marker again
AudioSamples ==
  { Sample(h, n) : h \in { RiffMarker, <<82, 73, 70, 88>>, <<>> }, n \in AudioLengths }
  \cup { [i \in 1..MaxAudioLen |->
           IF i \in (WavHeaderLen + 1)..(WavHeaderLen + 4)
           THEN RiffMarker[i - WavHeaderLen] ELSE Sample(RiffMarker, MaxAudioLen)[i]] }

AudioBodies ==
  { JsonObject(PyStr(<<"e", "n", "-", "U", "S">>), PyStr(<<"f", "r", "-", "F", "R">>),
               PyStr(<<"f", "r", "-", "V">>), PyStr(B64Encode(a))) : a \in AudioSamples }

NextAudio ==
  \/ \E body \in AudioBodies : Receive(body)
  \/ ParseRequest
  \/ DecodeAudio
  \/ SetStageSpeechToText
  \/ \E o \in RecognizerOutcomes : SpeechToText(o)
  \/ SetStageTranslateText
  \/ \E o \in ConcTranslatorOutcomes : TranslateText(o)
  \/ SetStageTextToSpeech
  \/ \E o \in ConcSynthesizerOutcomes : TextToSpeech(o)
  \/ ReturnAudio

SpecAudio == Init /\ [][NextAudio]_vars

\* ------------------------------------------------------------------------
\* Properties
\* ------------------------------------------------------------------------
PipelineStages == <<"speech_to_text", "translate_text", "text_to_speech">>

StageIndex(stage) == CHOOSE i \in 1..3 : PipelineStages[i] = stage

\* the stage function that owns a remote capability
CapStage(cap) ==
  CASE cap = "recognize" -> 1 [] cap = "translate" -> 2 [] cap = "synthesize" -> 3

\* C1: when a stage function raises, the handler stops there and answers 500
\* with 'stage' naming exactly that stage and 'error' its message; no later
\* stage runs, no audio is returned; a 500 always carries one of the three
\* stage names.
C1_StageFailureReported ==
  /\ \A i \in 1..Len(trace) :
       trace[i].ev = "raise" =>
         /\ i = Len(trace)
         /\ pc = "done"
         /\ Len(responses) = 1
         /\ responses[1].status = 500
         /\ responses[1].stage = trace[i].stage
         /\ responses[1].error = trace[i].a1.v
         /\ responses[1].audio = <<>>
         /\ \A j \in 1..Len(calls) : CapStage(calls[j].cap) <= StageIndex(trace[i].stage)
  /\ \A k \in 1..Len(responses) :
       responses[k].status = 500 =>
         /\ responses[k].stage \in {PipelineStages[i] : i \in 1..3}
         /\ trace # <<>> /\ trace[Len(trace)].ev = "raise"

\* a request that failed in translate_text after recognition succeeded
C1_Witness ==
  /\ pc = "done"
  /\ Len(responses) = 1
  /\ responses[1].status = 500
  /\ responses[1].stage = "translate_text"
  /\ Len(calls) = 2

\* text `needle` occurs in text `hay` as a contiguous run
Occurs(needle, hay) ==
  /\ needle # <<>>
  /\ \E i \in 1..Len(hay) :
       /\ i + Len(needle) - 1 <= Len(hay)
       /\ SubSeq(hay, i, i + Len(needle) - 1) = needle

\* the input is canonical base64: alphabet characters in groups of four,
\* '=' only as the final one or two characters of the last group
ValidBase64(x) ==
  /\ x.t = "str"
  /\ Len(x.v) % 4 = 0
  /\ \A i \in 1..Len(x.v) :
       \/ x.v[i] \in B64Chars
       \/ /\ x.v[i] = B64Pad
          /\ i >= Len(x.v) - 1
          /\ \A j \in i..Len(x.v) : x.v[j] = B64Pad

\* the handler has finished with the current request
Ended == pc \in {"done", "crashed"}

\* a request field as the JSON body carries it (None when it carries none)
Field(name) == IF request.t = "dict" THEN DictGet(request, name) ELSE PyNone

AllFieldsGiven == \A n \in FieldNames : Truthy(Field(n))

StartsWith(prefix, text) ==
  Len(text) >= Len(prefix) /\ SubSeq(text, 1, Len(prefix)) = prefix

\* C2: the stages are entered in the order speech_to_text, translate_text,
\* text_to_speech, each at most once and only after the previous one has
\* returned a value; every remote capability is called at most once, in
\* that same order, and only from its own stage.
C2_StagesInOrderOnce ==
  /\ Len(trace) <= 6
  /\ \A i \in 1..Len(trace) :
       IF i % 2 = 1
       THEN /\ trace[i].ev = "enter"
            /\ trace[i].stage = PipelineStages[(i + 1) \div 2]
            /\ i > 1 => trace[i - 1].ev = "return"
       ELSE /\ trace[i].ev \in {"return", "raise"}
            /\ trace[i].stage = trace[i - 1].stage
  /\ \A i, j \in 1..Len(calls) :
       i < j => CapStage(calls[i].cap) < CapStage(calls[j].cap)
  /\ \A j \in 1..Len(calls) : 2 * CapStage(calls[j].cap) <= Len(trace)

\* all three capabilities were called for one request
C2_Witness ==
  /\ Len(calls) = 3
  /\ Len(trace) = 6
  /\ trace[6].ev = "raise"

AllStagesSucceeded ==
  Len(trace) = 6 /\ \A k \in 1..3 : trace[2 * k].ev = "return"

\* C3: a finished request was answered with 200 exactly when all three
\* stages returned a value, and a 200 body is the synthesizer's audio.
C3_SuccessIffAllStages ==
  /\ pc = "done" =>
       ((\E k \in 1..Len(responses) : responses[k].status = 200) <=> AllStagesSucceeded)
  /\ \A k \in 1..Len(responses) :
       responses[k].status = 200 =>
         /\ AllStagesSucceeded
         /\ Len(calls) = 3
         /\ responses[k].audio = calls[3].reply.audio
         /\ responses[k].mimetype = "audio/wav"

\* a request answered with the synthesized audio
C3_Witness ==
  /\ pc = "done"
  /\ Len(responses) = 1
  /\ responses[1].status = 200
  /\ responses[1].audio = SynthAudio

\* C4: speech_to_text gets the decoded audio and the request's source_locale;
\* translate_text gets the text speech_to_text returned and the request's two
\* locales; text_to_speech gets the text translate_text returned, the
\* request's target_locale and neural_voice; the remote calls carry the same
\* values, and the request fields keep the values of the body.
C4_StageInputs ==
  /\ (pc \notin {"idle", "parse_request"} /\ request.t = "dict") =>
       /\ source_locale = DictGet(request, "source_locale")
       /\ target_locale = DictGet(request, "target_locale")
       /\ neural_voice = DictGet(request, "neural_voice")
       /\ audio_data_b64 = DictGet(request, "audio_data")
  /\ Len(trace) >= 1 =>
       /\ trace[1].a1 = PyList(b64decode(DictGet(request, "audio_data")).val)
       /\ trace[1].a2 = DictGet(request, "source_locale")
  /\ Len(trace) >= 3 =>
       /\ trace[3].a1 = trace[2].a1
       /\ trace[3].a1.v = calls[1].reply.text
       /\ trace[3].a2 = DictGet(request, "source_locale")
       /\ trace[3].a3 = DictGet(request, "target_locale")
  /\ Len(trace) >= 5 =>
       /\ trace[5].a1 = trace[4].a1
       /\ trace[5].a2 = DictGet(request, "target_locale")
       /\ trace[5].a3 = DictGet(request, "neural_voice")
  /\ \A j \in 1..Len(calls) :
       /\ calls[j].cap = "recognize" => calls[j].locale = DictGet(request, "source_locale")
       /\ calls[j].cap = "translate" => calls[j].text = trace[2].a1.v
       /\ calls[j].cap = "synthesize" =>
            /\ calls[j].text = Render(trace[4].a1)
            /\ calls[j].voice = Render(DictGet(request, "neural_voice"))

\* a WAV-framed request that went through all three stages
C4_Witness ==
  /\ Len(calls) = 3
  /\ HasWavHeader(audio_bytes)
  /\ calls[2].text = HelloText
  /\ calls[3].text = BonjourText

\* C5: a JSON body in which one of the four fields is absent or empty is
\* answered 400 "Missing required fields" without any remote call; a remote
\* call is made only for a body whose four fields are all non-empty.
C5_MissingFieldsRejected ==
  /\ (Ended /\ request # Malformed /\ ~AllFieldsGiven) =>
       /\ Len(responses) = 1
       /\ responses[1] = JsonResponse(400, <<"Missing required fields">>, "")
       /\ calls = <<>>
  /\ calls # <<>> => AllFieldsGiven

\* C6: with all four fields given, audio_data that is not valid base64 is
\* answered 400 with stage decode_audio and an error starting "Invalid audio
\* data: ", without any remote call; the recognizer only ever gets audio
\* that came from valid base64.
C6_InvalidBase64Rejected ==
  /\ (Ended /\ AllFieldsGiven /\ ~ValidBase64(Field("audio_data"))) =>
       /\ Len(responses) = 1
       /\ responses[1].status = 400
       /\ responses[1].stage = "decode_audio"
       /\ StartsWith(<<"Invalid audio data: ">>, responses[1].error)
       /\ calls = <<>>
  /\ \A j \in 1..Len(calls) : ValidBase64(Field("audio_data"))

\* C7: the translator subscription key (the configured value, surrounding
\* whitespace aside) occurs in no log record and in no response, whatever
\* the request and the outcome of the translation call.
C7_KeyNeverEmitted ==
  LET key == PyOr(env["AZURE_TRANSLATE_KEY"], env["AZURE_TRANSLATOR_KEY"]) IN
  Truthy(key) =>
    /\ \A i \in 1..Len(logs) : ~Occurs(Strip(key.v), logs[i].text)
    /\ \A k \in 1..Len(responses) : ~Occurs(Strip(key.v), responses[k].error)

\* C8: whatever the body and the remote outcomes, no exception leaves the
\* handler and a finished request has exactly one response, with status
\* 200, 400 or 500, stage-tagged when it is a failure inside the pipeline.
C8_AlwaysOneResponse ==
  /\ escaped.ok
  /\ pc # "crashed"
  /\ Len(responses) <= 1
  /\ pc = "done" =>
       /\ Len(responses) = 1
       /\ responses[1].status \in {200, 400, 500}
       /\ (trace # <<>> /\ responses[1].status # 200) =>
            responses[1].stage \in {PipelineStages[i] : i \in 1..3}

NoValue(names) == \A n \in names : ~Truthy(env[n])

SpeechUnresolvedForStt ==
  \/ NoValue({"AZURE_SPEECH_KEY", "AZURE_SPEECH_API_KEY"})
  \/ NoValue({"AZURE_SPEECH_REGION", "AZURE_SPEECH_LOCATION"})

TranslatorUnresolved ==
  \/ NoValue({"AZURE_TRANSLATE_ENDPOINT", "AZURE_TRANSLATOR_ENDPOINT", "AZURE_TRANSLATOR_URL"})
  \/ NoValue({"AZURE_TRANSLATE_KEY", "AZURE_TRANSLATOR_KEY"})

SpeechUnresolvedForTts ==
  NoValue({"AZURE_SPEECH_KEY"}) \/ NoValue({"AZURE_SPEECH_REGION"})

\* the stage entered as the k-th raised `msg` without a remote call of its
\* own, and the request was answered 500 tagged with that stage
FailedUnconfigured(k, msg) ==
  /\ trace[2 * k].ev = "raise"
  /\ trace[2 * k].a1.v = msg
  /\ \A j \in 1..Len(calls) : CapStage(calls[j].cap) # k
  /\ pc = "done"
  /\ Len(responses) = 1
  /\ responses[1] = JsonResponse(500, msg, PipelineStages[k])

\* a locale from which a non-empty language code is derived
YieldsCode(locale) == locale.t = "str" /\ locale.v # <<>> /\ Head(locale.v) # "-"

\* C9 as stated: in each stage, unresolvable credentials make the stage fail
\* with its 'credentials are not configured' error before the remote call,
\* and the request ends with a 500 tagged with that stage.
C9_AsStated ==
  /\ (Len(trace) >= 2 /\ SpeechUnresolvedForStt) =>
       FailedUnconfigured(1, <<"Azure Speech credentials are not configured">>)
  /\ (Len(trace) >= 4 /\ TranslatorUnresolved) =>
       FailedUnconfigured(2, <<"Azure Translator credentials are not configured">>)
  /\ (Len(trace) >= 6 /\ SpeechUnresolvedForTts) =>
       FailedUnconfigured(3, <<"Azure Speech credentials are not configured">>)

\* C9 (amended): as stated for recognition and synthesis; for translation
\* the 'credentials are not configured' error is the stage's failure when
\* both locales yield a language code, and in every case a stage entered
\* with unresolvable credentials makes no remote call and the request ends
\* with a 500 tagged with that stage.
C9_MissingCredentialsFailStage ==
  /\ (Len(trace) >= 2 /\ SpeechUnresolvedForStt) =>
       FailedUnconfigured(1, <<"Azure Speech credentials are not configured">>)
  /\ (Len(trace) >= 4 /\ TranslatorUnresolved) =>
       IF YieldsCode(source_locale) /\ YieldsCode(target_locale)
       THEN FailedUnconfigured(2, <<"Azure Translator credentials are not configured">>)
       ELSE FailedUnconfigured(2, trace[4].a1.v)
  /\ (Len(trace) >= 6 /\ SpeechUnresolvedForTts) =>
       FailedUnconfigured(3, <<"Azure Speech credentials are not configured">>)

\* translation failed for want of credentials after recognition succeeded
C9_Witness ==
  /\ pc = "done"
  /\ TranslatorUnresolved
  /\ Len(calls) = 1
  /\ Len(responses) = 1
  /\ responses[1].stage = "translate_text"
  /\ responses[1].error = <<"Azure Translator credentials are not configured">>

\* a locale given as text from which an empty language code is derived
YieldsEmptyCode(locale) == locale.t = "str" /\ locale.v # <<>> /\ Head(locale.v) = "-"

\* C10: a request that enters the pipeline with a locale yielding an empty
\* language code never causes a remote call, and when its translation stage
\* has run it is answered with the invalid-locale error.
C10_InvalidLocaleBeforeCalls ==
  (/\ trace # <<>>
   /\ YieldsEmptyCode(Field("source_locale")) \/ YieldsEmptyCode(Field("target_locale"))) =>
    /\ calls = <<>>
    /\ Len(trace) >= 4 =>
         /\ Len(responses) = 1
         /\ responses[1].error = <<"Invalid locale provided for translation">>

\* ------------------------------------------------------------------------
\* C11
\* ------------------------------------------------------------------------
\* the reply the capability gave in the calls of one invocation, or any
\* reply when the capability was not called
ReplyOf(cl, cap, outcomes) ==
  IF \E k \in 1..Len(cl) : cl[k].cap = cap
  THEN cl[CHOOSE k \in 1..Len(cl) : cl[k].cap = cap].reply
  ELSE CHOOSE o \in outcomes : TRUE

\* the responses of a request that is handled with no other request in
\* progress, as a function of the configuration, the body and the replies
HandledAlone(e, body, o1, o2, o3) ==
  IF body = Malformed THEN << JsonResponse(400, <<"Invalid JSON payload">>, "") >>
  ELSE IF body.t # "dict" THEN << >>
  ELSE
    LET sl == DictGet(body, "source_locale")
        tl == DictGet(body, "target_locale")
        nv == DictGet(body, "neural_voice")
        ad == DictGet(body, "audio_data")
    IN
    IF ~(Truthy(sl) /\ Truthy(tl) /\ Truthy(nv) /\ Truthy(ad))
    THEN << JsonResponse(400, <<"Missing required fields">>, "") >>
    ELSE
      LET d == b64decode(ad) IN
      IF ~d.ok THEN << JsonResponse(400, <<"Invalid audio data: ">> \o d.msg, "decode_audio") >>
      ELSE
        LET r1 == speech_to_text(d.val, sl, e, o1).res IN
        IF ~r1.ok THEN << JsonResponse(500, r1.msg, "speech_to_text") >>
        ELSE
          LET r2 == translate_text(r1.val, sl, tl, e, o2).res IN
          IF ~r2.ok THEN << JsonResponse(500, r2.msg, "translate_text") >>
          ELSE
            LET r3 == text_to_speech(r2.val, tl, nv, e, o3).res IN
            IF ~r3.ok THEN << JsonResponse(500, r3.msg, "text_to_speech") >>
            ELSE << AudioResponse(r3.val) >>

FrameIndependent(f) ==
  /\ f.pc \in {"done", "crashed"} =>
       f.responses = HandledAlone(env, f.request,
                                  ReplyOf(f.calls, "recognize", RecognizerOutcomes),
                                  ReplyOf(f.calls, "translate", TranslatorOutcomes),
                                  ReplyOf(f.calls, "synthesize", SynthesizerOutcomes))
  /\ f.pc \notin {"done", "crashed"} => f.responses = << >>
  /\ \A k \in 1..Len(f.responses) :
       f.responses[k].stage # "" => f.responses[k].stage = f.current_stage

\* C11: when two requests are handled at once, under every interleaving of
\* their steps, each finished request has exactly the responses (status,
\* body, stage label) it has when handled alone with the same configuration,
\* body and remote replies; a request still in progress has none.
C11_ConcurrentRequestsIndependent == FrameIndependent(Frame) /\ FrameIndependent(other)

\* one request was answered with a failure of translate_text while the other
\* one is suspended inside speech_to_text, and the other way round
C11_Witness ==
  /\ pc = "done" /\ Len(responses) = 1 /\ responses[1].stage = "translate_text"
  /\ other.pc = "speech_to_text" /\ other.current_stage = "speech_to_text"
  /\ other.request # request

\* ------------------------------------------------------------------------
\* C12, C13
\* ------------------------------------------------------------------------
\* the HTTP responses the translator endpoint gave to this request
TranslatorResponses ==
  { k \in 1..Len(calls) : calls[k].cap = "translate" /\ calls[k].reply.kind = "response" }

\* the log record written for a response whose status is not 200
IsApiErrorLog(l, status) ==
  /\ l.level = "error"
  /\ StartsWith(<<"Translator API error: status=", ToString(status)>>, l.text)
  /\ ~Occurs(<<KeyHeader>>, l.text)

\* C12: translate_text returns a value only for a response with status 200;
\* for every response with another status (2xx and 3xx included) the
\* response is logged without the credential header and the stage raises an
\* error whose message carries the status.
C12_OnlyStatus200Returned ==
  \A k \in TranslatorResponses :
     LET reply == calls[k].reply IN
     /\ Len(trace) >= 4 /\ trace[3].stage = "translate_text"
     /\ trace[4].ev = "return" => reply.status = 200
     /\ reply.status # 200 =>
          /\ trace[4].ev = "raise"
          /\ Occurs(<<ToString(reply.status)>>, trace[4].a1.v)
          /\ \E j \in 1..Len(logs) : IsApiErrorLog(logs[j], reply.status)

\* the decoded body has a first result with a first translation with a text
HasTranslationShape(json) ==
  /\ json.t = "list" /\ Len(json.v) >= 1
  /\ json.v[1].t = "dict" /\ "translations" \in DOMAIN json.v[1].v
  /\ json.v[1].v["translations"].t = "list" /\ Len(json.v[1].v["translations"].v) >= 1
  /\ json.v[1].v["translations"].v[1].t = "dict"
  /\ "text" \in DOMAIN json.v[1].v["translations"].v[1].v

\* C13: for a 200 response whose body decodes as JSON, translate_text returns
\* the text of the first translation of the first result when the body has
\* that structure, and otherwise raises 'Translator unexpected response'
\* carrying the body, and no other error.
C13_WrongShapeIsUnexpectedResponse ==
  \A k \in TranslatorResponses :
     LET reply == calls[k].reply IN
     (reply.status = 200 /\ reply.json # NotJson) =>
        /\ Len(trace) >= 4 /\ trace[3].stage = "translate_text"
        /\ IF HasTranslationShape(reply.json)
           THEN /\ trace[4].ev = "return"
                /\ trace[4].a1 = reply.json.v[1].v["translations"].v[1].v["text"]
           ELSE /\ trace[4].ev = "raise"
                /\ StartsWith(<<"Translator unexpected response: ">>, trace[4].a1.v)
                /\ Occurs(reply.text, trace[4].a1.v)

\* ------------------------------------------------------------------------
\* C14, C15, C20
\* ------------------------------------------------------------------------
\* the payloads handed to the recognizer for this request
RecognizerPayloads == { k \in 1..Len(calls) : calls[k].cap = "recognize" }

BeginsWithRiff(a) == Len(a) >= 4 /\ a[1] = 82 /\ a[2] = 73 /\ a[3] = 70 /\ a[4] = 70

\* a request whose audio decoded to exactly the bytes the client encoded
DecodedAsSent ==
  \E a \in AudioSamples : audio_data_b64 = PyStr(B64Encode(a)) /\ audio_bytes = a

\* C14: the payload written for recognition is the decoded audio without its
\* first 44 bytes when the audio is longer than 44 bytes and begins with
\* 'RIFF', and the decoded audio unchanged in every other case; the write
\* happens whenever the stage is entered with credentials configured.
C14_Normalization ==
  /\ \A k \in RecognizerPayloads :
       calls[k].audio =
         IF Len(audio_bytes) > 44 /\ BeginsWithRiff(audio_bytes)
         THEN [i \in 1..(Len(audio_bytes) - 44) |-> audio_bytes[i + 44]]
         ELSE audio_bytes
  /\ (Len(trace) >= 2 /\ ~SttCredentialsMissing(env)) => RecognizerPayloads = {1}
  /\ pc \notin {"idle", "parse_request", "decode_audio"} /\ Len(responses) = 0 => DecodedAsSent

\* a 45-byte framed payload was submitted as its single last byte
C14_Witness ==
  /\ RecognizerPayloads = {1}
  /\ Len(audio_bytes) = 45 /\ BeginsWithRiff(audio_bytes)
  /\ calls[1].audio = <<45>>

\* C15 as stated: whenever the decoded audio begins with 'RIFF', the payload
\* submitted is the audio without its leading 44 bytes, so the audio itself,
\* header included, is never submitted.
C15_AsStated ==
  \A k \in RecognizerPayloads :
     BeginsWithRiff(audio_bytes) =>
       /\ calls[k].audio # audio_bytes
       /\ Len(calls[k].audio) = Len(audio_bytes) - 44
       /\ \A i \in 1..Len(calls[k].audio) : calls[k].audio[i] = audio_bytes[i + 44]

\* C15: whenever the decoded audio begins with 'RIFF' and is longer than 44
\* bytes, the payload submitted is the audio without exactly its leading 44
\* bytes (so it is never the framed audio itself); audio of at most 44 bytes
\* is submitted as it is, also when it begins with 'RIFF'.
C15_LongFramedAudioStripped ==
  \A k \in RecognizerPayloads :
     /\ (BeginsWithRiff(audio_bytes) /\ Len(audio_bytes) > 44) =>
          /\ calls[k].audio # audio_bytes
          /\ Len(calls[k].audio) = Len(audio_bytes) - 44
          /\ \A i \in 1..Len(calls[k].audio) : calls[k].audio[i] = audio_bytes[i + 44]
     /\ Len(audio_bytes) <= 44 => calls[k].audio = audio_bytes

\* an 89-byte framed payload was submitted as its last 45 bytes
C15_Witness ==
  /\ RecognizerPayloads = {1}
  /\ Len(audio_bytes) = 89 /\ BeginsWithRiff(audio_bytes)
  /\ Len(calls[1].audio) = 45 /\ calls[1].audio[1] = 45

\* C20: for every decoded audio whose payload does not itself begin with
\* 'RIFF', normalizing the payload again leaves it unchanged.
C20_NormalizeIdempotent ==
  \A k \in RecognizerPayloads :
     (calls[k].audio = StripWavHeader(audio_bytes) /\ ~BeginsWithRiff(calls[k].audio)) =>
        StripWavHeader(StripWavHeader(audio_bytes)) = StripWavHeader(audio_bytes)

\* a framed payload was stripped to more than 44 bytes that do not begin
\* with the marker: the second pass is stopped by the marker test alone
C20_Witness ==
  /\ RecognizerPayloads = {1}
  /\ BeginsWithRiff(audio_bytes)
  /\ calls[1].audio # audio_bytes
  /\ Len(calls[1].audio) > 44 /\ ~BeginsWithRiff(calls[1].audio)

\* ------------------------------------------------------------------------
\* C16
\* ------------------------------------------------------------------------
HasSeparator(l) == \E i \in 1..Len(l) : l[i] = "-"

\* the characters of l before its first '-', all of l when it has none
LanguagePrefix(l) ==
  LET firstSep == IF HasSeparator(l)
                  THEN CHOOSE i \in 1..Len(l) : l[i] = "-" /\ \A j \in 1..(i - 1) : l[j] # "-"
                  ELSE Len(l) + 1
  IN [i \in 1..(firstSep - 1) |-> l[i]]

\* translate_text has run with two locales that are strings
TranslationRanOnLocales ==
  /\ Len(trace) >= 4 /\ trace[3].stage = "translate_text"
  /\ trace[3].a2.t = "str" /\ trace[3].a3.t = "str"

InvalidLocaleRaised ==
  /\ trace[4].ev = "raise"
  /\ trace[4].a1.v = <<"Invalid locale provided for translation">>

NoTranslateCall == \A k \in 1..Len(calls) : calls[k].cap # "translate"

\* C16 as stated: when a locale given to translate_text is empty or has no
\* '-' separator, its language code is empty and the stage fails with the
\* invalid-locale error without sending a request.
C16_AsStated ==
  (/\ TranslationRanOnLocales
   /\ \/ ~HasSeparator(trace[3].a2.v)
      \/ ~HasSeparator(trace[3].a3.v)) =>
     InvalidLocaleRaised /\ NoTranslateCall

\* C16: the language code of a locale is its prefix before the first '-',
\* the whole locale when it has no '-'. When that prefix is empty for either
\* locale (an empty locale, or one that begins with '-') the stage fails with
\* the invalid-locale error without sending a request; otherwise the error
\* is not raised and a request that is sent carries the two prefixes.
C16_PrefixBeforeFirstSeparator ==
  TranslationRanOnLocales =>
    LET from_lang == LanguagePrefix(trace[3].a2.v)
        to_lang == LanguagePrefix(trace[3].a3.v)
    IN
    IF from_lang = <<>> \/ to_lang = <<>>
    THEN InvalidLocaleRaised /\ NoTranslateCall
    ELSE /\ ~InvalidLocaleRaised
         /\ \A k \in 1..Len(calls) :
              calls[k].cap = "translate" =>
                \E n \in 0..Len(calls[k].url) :
                   calls[k].url = SubSeq(calls[k].url, 1, n)
                                    \o <<"/translate?api-version=3.0&from=">> \o from_lang
                                    \o <<"&to=">> \o to_lang

\* a request with the separator-less source locale 'en' was sent to the
\* translator with from=en
C16_Witness ==
  /\ TranslationRanOnLocales
  /\ trace[3].a2.v = <<"e", "n">>
  /\ \E k \in 1..Len(calls) :
       /\ calls[k].cap = "translate"
       /\ Occurs(<<"/translate?api-version=3.0&from=", "e", "n", "&to=", "f", "r">>, calls[k].url)

\* ------------------------------------------------------------------------
\* C17, C18, C19
\* ------------------------------------------------------------------------
\* speech_to_text ended with this exception message
SttRaised(msg) == trace[2].ev = "raise" /\ trace[2].a1.v = msg

\* C17: the result of speech_to_text is decided by the outcome of the
\* recognition pass alone: RecognizedSpeech returns the recognized text;
\* NoMatch raises exactly 'STT failed: No speech could be recognized';
\* Canceled raises 'STT canceled: ' with the cancellation reason and detail;
\* any other outcome raises 'STT failed: ' with the outcome code. A value is
\* returned for RecognizedSpeech only.
C17_OutcomeMapping ==
  \A k \in RecognizerPayloads :
     LET o == calls[k].reply IN
     /\ Len(trace) >= 2 /\ trace[2].stage = "speech_to_text"
     /\ trace[2].ev = "return" <=> o.reason = "RecognizedSpeech"
     /\ o.reason = "RecognizedSpeech" => trace[2].a1 = PyStr(o.text)
     /\ o.reason = "NoMatch" => SttRaised(<<"STT failed: No speech could be recognized">>)
     /\ o.reason = "Canceled" =>
          SttRaised(<<"STT canceled: ">> \o o.creason \o <<", ">> \o o.details)
     /\ o.reason \notin {"RecognizedSpeech", "NoMatch", "Canceled", "raise"} =>
          /\ trace[2].ev = "raise"
          /\ StartsWith(<<"STT failed: ">>, trace[2].a1.v)
          /\ trace[2].a1.v[Len(trace[2].a1.v)] = o.reason

\* a canceled pass was reported with its reason and detail
C17_Witness ==
  /\ RecognizerPayloads = {1}
  /\ calls[1].reply.reason = "Canceled" /\ calls[1].reply.details # <<>>
  /\ Len(trace) >= 2
  /\ SttRaised(<<"STT canceled: ", "CancellationReason.Error", ", ", "a", "u", "t", "h">>)
  /\ Len(responses) = 1 /\ responses[1].stage = "speech_to_text"

\* C18: whenever speech_to_text returns, the text it returns and hands to
\* translate_text is non-empty, and the translator is never called with an
\* empty text.
C18_TranslatorNeverGivenEmptyText ==
  /\ (Len(trace) >= 2 /\ trace[2].ev = "return") => trace[2].a1.v # <<>>
  /\ Len(trace) >= 3 => trace[3].a1.v # <<>>
  /\ \A k \in 1..Len(calls) : calls[k].cap = "translate" => calls[k].text # <<>>

SpeechCredentialsMessage == <<"Azure Speech credentials are not configured">>

\* C19: speech_to_text and text_to_speech resolve the speech credentials
\* alike: a request whose speech_to_text stage found the key and the region
\* (it went on to call the recognizer) never has its text_to_speech stage
\* fail with 'Azure Speech credentials are not configured'.
C19_SpeechCredentialsResolvedAlike ==
  (/\ Len(trace) >= 6
   /\ trace[1].stage = "speech_to_text" /\ trace[2].ev = "return"
   /\ trace[5].stage = "text_to_speech") =>
     ~(trace[6].ev = "raise" /\ trace[6].a1.v = SpeechCredentialsMessage)

====
